---- MODULE Spec2Model ----
(***************************************************************************)
(* A model of the newsletter event-extraction pipeline:                    *)
(*   - process/events.py   main, extract_events,                           *)
(*                         _process_single_extracted_event                 *)
(*   - database.py         the events table and the emails_processed       *)
(*                         ledger                                          *)
(*   - utils/caching.py    the disk_cache wrapper                          *)
(*   - ai/get_ai_response.py  call_llm under the tenacity retry decorator  *)
(*                         and the request it builds for its backend       *)
(*   - types.py            the Event model and its validators              *)
(*                                                                         *)
(* The specifications of the module: Spec (the batch pipeline), SpecCache  *)
(* (the disk_cache wrapper around an arbitrary function), SpecRetry (one   *)
(* call_llm invocation, attempt by attempt), SpecConc (callers of one      *)
(* cached function running side by side), SpecEvent (the construction of   *)
(* one Event), SpecEnum (the sanitizing of one list-valued field),         *)
(* SpecFields (the scalar enum fields and the identifying fields of one    *)
(* candidate), SpecGate (the completeness gate) and SpecRequest (the       *)
(* request of one call_llm invocation).                                    *)
(***************************************************************************)
EXTENDS Integers, Sequences, FiniteSets, TLC

VARIABLES
    \* ---- the store (database.py) and the cache directories: persistent
    emails,            \* table "emails": rows in table order, never changed here
    events_tbl,        \* table "events": inserted rows, in insertion order
    emails_processed,  \* table "emails_processed": the processing ledger
    cache_extract,     \* .cache/app_cache/initial_extraction : key -> file
    cache_search,      \* .cache/app_cache/web_search_summary : key -> file
    cache_refine,      \* .cache/app_cache/event_refinement   : key -> file
    \* ---- one run of process/events.py main()
    batch_size,        \* main's `batch` argument
    runs,              \* runs of main started so far
    phase,             \* position of main: idle, loop, cands, save, mark, done, aborted
    batch,             \* `emails`, the list fetch_unprocessed_emails returned
    idx,               \* position of the for loop in `batch` (1-based)
    cands,             \* extracted_raw_event_list of the current message
    cidx,              \* position of the candidate loop (1-based)
    final_events,      \* final_events of the current message
    stage_log,         \* the stage functions called for the current message, in order
    genCalls,          \* per message: call_llm invocations made in this run
    outcome,           \* per message: how this run left it
    \* ---- the disk_cache wrapper on its own (SpecCache)
    cfile,             \* per cache key: the file of that key
    fnCalls,           \* per argument tuple: invocations of the wrapped function
    chist,             \* the calls made so far, oldest first
    \* ---- one call_llm invocation (SpecRetry)
    rphase,            \* idle, trying, returned, raised
    attempts,          \* outcomes of the attempts made so far, oldest first
    rresult,           \* what the invocation gave its caller
    \* ---- constructing one Event (SpecEvent)
    ekwargs,           \* the keyword arguments, or the candidate dict
    eresult,           \* pending, the Event constructed, an error, or dropped
    eprev,             \* the recurrence_rule of the Event fed back as input
    \* ---- sanitizing one list-valued field of a candidate (SpecEnum)
    sfield,            \* "target_audiences" or "event_types"
    sraw,              \* what the candidate dict has for the field
    sclean,            \* the field after lines 401-430
    \* ---- concurrent calls of one decorated function with one key (SpecConc)
    kfile,             \* the cache file of that key
    cpc,               \* per caller: its position in the wrapper
    cres,              \* per caller: its local `result`
    crounds,           \* per caller: calls it has started
    \* ---- one pure function applied to one input (SpecFields, SpecGate, SpecRequest)
    fargs,             \* the arguments of the call
    fret               \* pending, or what the call produced

pipeVars == <<emails, events_tbl, emails_processed, cache_extract, cache_search,
              cache_refine, batch_size, runs, phase, batch, idx, cands, cidx,
              final_events, stage_log, genCalls, outcome>>
cacheVars == <<cfile, fnCalls, chist>>
retryVars == <<rphase, attempts, rresult>>
concVars == <<kfile, cpc, cres, crounds>>
eventVars == <<ekwargs, eresult, eprev>>
enumVars == <<sfield, sraw, sclean>>
fnVars == <<fargs, fret>>
unitVars == <<concVars, eventVars, enumVars, fnVars>>
vars == <<pipeVars, cacheVars, retryVars, unitVars>>

(***************************************************************************)
(* Bounds of the model and constants of the program.                       *)
(***************************************************************************)
NumEmails == 2      \* rows of the emails table
MaxCands == 2       \* candidates one extraction response may carry
MaxRuns == 2        \* runs of main in one behaviour
MaxBatch == 1       \* largest explicit batch size tried (0 means "no limit")

N_CHARS_MAX == 40000        \* process/events.py
MIN_CONFIDENCE == 40        \* 0.4, parsing_confidence_score in hundredths

MsgIds == 1..NumEmails

Min(a, b) == IF a < b THEN a ELSE b

(***************************************************************************)
(* utils/caching.py: the disk_cache wrapper, as a function of the file of  *)
(* the call's key and of what the wrapped function does when invoked.      *)
(*                                                                         *)
(* A Python value is [t, v]: t = "json" for a value made of JSON's own     *)
(* types (what json.loads returns), "tuple" for a value json.dump accepts  *)
(* but writes as another type, "object" for one json.dump rejects with     *)
(* TypeError.  A file is absent, corrupt (opened for writing, then         *)
(* json.dump failed) or holds the JSON text of a value.                    *)
(***************************************************************************)
Absent == [kind |-> "absent"]
Corrupt == [kind |-> "corrupt"]
JsonFile(text) == [kind |-> "json", text |-> text]

PyJson(v) == [t |-> "json", v |-> v]

Serializable(val) == val.t \in {"json", "tuple"}
json_dump(val) == val.v
json_load(text) == PyJson(text)

Returned(val) == [kind |-> "value", value |-> val]
ReturnedNone == [kind |-> "none"]
Raised(err) == [kind |-> "raise", error |-> err]

\* lines 55-68: the file exists and json.load succeeds
CacheHit(file) == file.kind = "json"

\* variants of CacheWrite: the write is skipped; a raised call leaves a file
CacheWriteSkipped(file, out) == file
CacheWriteOnRaise(file, out) ==
    IF out.kind = "raise" THEN JsonFile(<<>>)
    ELSE IF out.kind # "value" THEN file
    ELSE IF Serializable(out.value) THEN JsonFile(json_dump(out.value))
    ELSE Corrupt

\* variant of CacheWrite: a None result is written too
CacheWriteNone(file, out) ==
    IF out.kind = "raise" THEN file
    ELSE IF out.kind = "none" THEN JsonFile("null")
    ELSE IF Serializable(out.value) THEN JsonFile(json_dump(out.value))
    ELSE Corrupt

\* lines 76-85: the file after the write attempt
CacheWrite(file, out) ==
    IF out.kind # "value" THEN file
    ELSE IF Serializable(out.value) THEN JsonFile(json_dump(out.value))
    ELSE Corrupt

\* lines 55-86: out is what the wrapped function does if it is invoked;
\* read and wrote tell whether the file was opened for reading, for writing
disk_cache_wrapper(file, out) ==
    IF CacheHit(file)
    THEN [ret |-> Returned(json_load(file.text)), invoked |-> FALSE, file |-> file,
          read |-> TRUE, wrote |-> FALSE]
    ELSE [ret |-> out, invoked |-> TRUE, file |-> CacheWrite(file, out),
          read |-> file.kind # "absent", wrote |-> out.kind = "value"]

(***************************************************************************)
(* database.py                                                             *)
(***************************************************************************)
HasEvents(tbl, m) == \E i \in 1..Len(tbl) : tbl[i].email_message_id = m
HasMarker(ledger, m) == \E r \in ledger : r.message_id = m

\* variant of email_already_parsed: only the ledger is consulted
email_already_parsed_ledger_only(tbl, ledger, m) == HasMarker(ledger, m)

\* variant of email_already_parsed: no message counts as parsed
email_never_parsed(tbl, ledger, m) == FALSE

email_already_parsed(tbl, ledger, m) ==
    IF HasEvents(tbl, m) THEN TRUE
    ELSE IF HasMarker(ledger, m) THEN TRUE
    ELSE FALSE

\* upsert on the primary key message_id (processed_at is not modelled)
mark_email_processed(ledger, m, parsed_ok, note) ==
    {r \in ledger : r.message_id # m}
        \cup {[message_id |-> m, parsed_ok |-> parsed_ok, note |-> note]}

save_events_to_db(tbl, ledger, evs, m) ==
    IF evs = <<>> THEN tbl
    ELSE IF email_already_parsed(tbl, ledger, m) THEN tbl
    ELSE tbl \o [i \in 1..Len(evs) |-> [evs[i] EXCEPT !.email_message_id = m]]

\* variant of body_too_large: the limit itself counts as too large
body_too_large_inclusive(email_rec) == email_rec.body_len >= N_CHARS_MAX

\* process/events.py line 587
body_too_large(email_rec) == email_rec.body_len > N_CHARS_MAX

IsUnprocessed(ledger, e) == ~HasMarker(ledger, e.message_id)

\* the limit is applied to the query, the ledger filter to its result
fetch_unprocessed_emails(tbl, ledger, size) ==
    LET got == IF size # 0 THEN SubSeq(tbl, 1, Min(size, Len(tbl))) ELSE tbl
    IN  SelectSeq(got, LAMBDA e : IsUnprocessed(ledger, e))

(***************************************************************************)
(* The cache directory of one decorated function: a set of [key, file].    *)
(***************************************************************************)
FileOf(dir, key) ==
    IF \E e \in dir : e.key = key
    THEN (CHOOSE e \in dir : e.key = key).file
    ELSE Absent

PutFile(dir, key, file) ==
    IF file.kind = "absent" THEN dir
    ELSE {e \in dir : e.key # key} \cup {[key |-> key, file |-> file]}

(***************************************************************************)
(* Candidates: the dicts of an extraction response.  "" is a missing text  *)
(* field, 0 a missing date, -1 a missing score; dates are day numbers and  *)
(* the score is in hundredths.                                             *)
(***************************************************************************)
BaseCand ==
    [title |-> "Life drawing", start_date |-> 1, end_date |-> 0,
     location_type |-> "venue", parsing_confidence_score |-> 50,
     organizer_name |-> "", location_address_verbatim |-> "",
     location_postcode |-> "", event_url |-> "", booking_url |-> "",
     email_message_id |-> 0, from_aggregator |-> FALSE]

\* spec scenario C: no organizer, address, postcode or URL
CandBare == BaseCand
\* spec scenario D: organizer, address, postcode and a booking URL
CandFull ==
    [BaseCand EXCEPT !.organizer_name = "org", !.location_address_verbatim = "addr",
                     !.location_postcode = "E8 3DL", !.booking_url = "url"]
\* a location_type outside EventLocationType
CandBadEnum == [CandFull EXCEPT !.location_type = "bogus"]

Pool == {CandBare, CandFull, CandBadEnum}

CandLists == UNION {[1..n -> Pool] : n \in 0..MaxCands}

EventLocationType == {"venue", "online", "address_only", "various", "tbc"}

(***************************************************************************)
(* process/events.py: the decision functions                               *)
(***************************************************************************)
\* variant of _needs_enrichment: every candidate is enriched
enrich_always(ev) == TRUE

_needs_enrichment(ev) ==
    LET missing_postcode == ev.location_postcode = ""
        missing_organizer == ev.organizer_name = ""
        missing_venue_address ==
            ev.location_type = "venue" /\ ev.location_address_verbatim = ""
    IN  missing_postcode \/ missing_organizer \/ missing_venue_address

\* variant of _is_complete: the older predicate of process/aggregator.py
\* (1-14), with its 0.30 threshold and no postcode requirement
is_complete(ev, is_aggregator) ==
    IF ev.title = "" \/ ev.start_date = 0 \/ ev.location_type = "" THEN FALSE
    ELSE IF ev.parsing_confidence_score < 30 THEN FALSE
    ELSE IF is_aggregator
    THEN IF ev.organizer_name = "" THEN FALSE
         ELSE IF ev.location_type = "venue" /\ ev.location_address_verbatim = ""
         THEN FALSE
         ELSE IF ~(ev.event_url # "" \/ ev.booking_url # "") THEN FALSE
         ELSE TRUE
    ELSE TRUE

_is_complete(ev, is_aggregator) ==
    IF ev.title = "" \/ ev.start_date = 0 \/ ev.location_type = "" THEN FALSE
    ELSE IF (IF ev.parsing_confidence_score = -1 THEN 0
             ELSE ev.parsing_confidence_score) < MIN_CONFIDENCE THEN FALSE
    ELSE IF is_aggregator
    THEN IF ev.organizer_name = "" THEN FALSE
         ELSE IF ev.location_type = "venue"
                 /\ (ev.location_address_verbatim = "" \/ ev.location_postcode = "")
         THEN FALSE
         ELSE IF ~(ev.event_url # "" \/ ev.booking_url # "") THEN FALSE
         ELSE TRUE
    ELSE TRUE

(***************************************************************************)
(* process/events.py: the three cached stage functions, as what each does  *)
(* when invoked given the gateway's answer: [out, calls], calls being the  *)
(* call_llm invocations it makes.                                          *)
(***************************************************************************)
GatewayError == "gateway_error"

\* the extraction responses: a failed call, text that is not JSON, JSON that
\* is not an object (null, a number), an object without a list under
\* "events", and an object with one
ExtractionOutcomes ==
    {[kind |-> "fail"], [kind |-> "invalid_json"], [kind |-> "not_object"],
     [kind |-> "no_events_key"]}
        \cup {[kind |-> "events", events |-> l] : l \in CandLists}

\* lines 317-330: JSONDecodeError is caught; the membership test on a parsed
\* value that is not a container raises TypeError, which is not
_perform_initial_event_extraction(resp) ==
    IF resp.kind = "fail" THEN [out |-> Raised(GatewayError), calls |-> 1]
    ELSE IF resp.kind = "not_object" THEN [out |-> Raised("TypeError"), calls |-> 1]
    ELSE IF resp.kind = "events" THEN [out |-> Returned(PyJson(resp.events)), calls |-> 1]
    ELSE [out |-> Returned(PyJson(<<>>)), calls |-> 1]

SearchOutcomes == {"fail", "empty", "summary"}

_get_web_search_summary(event_dict_to_enrich, so) ==
    IF event_dict_to_enrich.title = "" \/ event_dict_to_enrich.start_date = 0
    THEN [out |-> ReturnedNone, calls |-> 0]
    ELSE IF so = "fail" THEN [out |-> Raised(GatewayError), calls |-> 1]
    ELSE IF so = "empty" THEN [out |-> ReturnedNone, calls |-> 1]
    ELSE [out |-> Returned(PyJson("summary")), calls |-> 1]

\* the refinement responses: a failed call, text that is not JSON, the JSON
\* null, an empty object, and two partial updates
RefineOutcomes == {"fail", "invalid_json", "null", "{}", "fill", "bad_enum"}

_refine_event_with_web_summary(event, web_search_summary, ro) ==
    IF ro = "fail" THEN [out |-> Raised(GatewayError), calls |-> 1]
    ELSE IF ro = "invalid_json" THEN [out |-> Raised("JSONDecodeError"), calls |-> 1]
    ELSE IF ro = "null" THEN [out |-> ReturnedNone, calls |-> 1]
    ELSE [out |-> Returned(PyJson(ro)), calls |-> 1]

\* obj.update(enrichment_updates), for the updates of RefineOutcomes
DictUpdate(obj, upd) ==
    IF upd = "fill"
    THEN [obj EXCEPT !.organizer_name = "org", !.location_address_verbatim = "addr",
                     !.location_postcode = "E8 3DL", !.booking_url = "url"]
    ELSE IF upd = "bad_enum" THEN [obj EXCEPT !.location_type = "bogus"]
    ELSE obj

Truthy(upd) == upd \in {"fill", "bad_enum"}

(***************************************************************************)
(* types.py: constructing the Event from the dict succeeds                 *)
(***************************************************************************)
EventConstructs(obj) ==
    /\ obj.start_date # 0
    /\ obj.location_type \in EventLocationType
    /\ obj.parsing_confidence_score >= 0 /\ obj.parsing_confidence_score <= 100
    /\ ~(obj.end_date # 0 /\ obj.end_date < obj.start_date)

(***************************************************************************)
(* process/events.py: _process_single_extracted_event for one candidate.   *)
(* so and ro are the gateway's answers to the search and refinement calls  *)
(* (used only if the call is made); sdir and rdir are the two cache        *)
(* directories.  The result names what happened (an Event, a dropped       *)
(* candidate, or an exception leaving the function), the call_llm          *)
(* invocations made, and the cache directories afterwards.                 *)
(***************************************************************************)
\* lines 371-445: cleaning and defaults; start_date and the dates' order are
\* checked by the caller below
Normalize(obj, message_id, is_aggregator) ==
    [obj EXCEPT
        !.title = IF obj.title = "" THEN "Untitled Event" ELSE obj.title,
        !.location_type = IF obj.location_type = "" THEN "tbc" ELSE obj.location_type,
        !.parsing_confidence_score =
            IF obj.parsing_confidence_score = -1 THEN 50
            ELSE obj.parsing_confidence_score,
        !.email_message_id = message_id,
        !.from_aggregator = is_aggregator]

\* variant of CleanAndValidate: a failed construction leaves the function as
\* an exception
CleanAndValidateRaising(obj, message_id, is_aggregator) ==
    IF obj.start_date = 0 THEN [status |-> "dropped"]
    ELSE IF obj.end_date # 0 /\ obj.start_date > obj.end_date THEN [status |-> "dropped"]
    ELSE LET n == Normalize(obj, message_id, is_aggregator)
         IN  IF EventConstructs(n) THEN [status |-> "event", event |-> n]
             ELSE [status |-> "raise", error |-> "ValidationError"]

\* lines 371-461
CleanAndValidate(obj, message_id, is_aggregator) ==
    IF obj.start_date = 0 THEN [status |-> "dropped"]
    ELSE IF obj.end_date # 0 /\ obj.start_date > obj.end_date THEN [status |-> "dropped"]
    ELSE LET n == Normalize(obj, message_id, is_aggregator)
         IN  IF EventConstructs(n) THEN [status |-> "event", event |-> n]
             ELSE [status |-> "dropped"]

_process_single_extracted_event(raw, message_id, is_aggregator, so, ro, sdir, rdir) ==
    LET obj == [raw EXCEPT !.email_message_id = message_id,
                           !.from_aggregator = is_aggregator]
        needs == is_aggregator /\ _needs_enrichment(obj)
        \* lines 352-355
        sfn == _get_web_search_summary(obj, so)
        sw == disk_cache_wrapper(FileOf(sdir, obj), sfn.out)
        scalls == IF needs /\ sw.invoked THEN sfn.calls ELSE 0
        sdir2 == IF needs THEN PutFile(sdir, obj, sw.file) ELSE sdir
        has_summary == needs /\ sw.ret.kind = "value"
        \* lines 356-363
        rkey == [event |-> obj, web_search_summary |-> "summary"]
        rfn == _refine_event_with_web_summary(obj, "summary", ro)
        rw == disk_cache_wrapper(FileOf(rdir, rkey), rfn.out)
        rcalls == IF has_summary /\ rw.invoked THEN rfn.calls ELSE 0
        rdir2 == IF has_summary THEN PutFile(rdir, rkey, rw.file) ELSE rdir
        \* lines 364-366
        merged == IF has_summary /\ rw.ret.kind = "value" /\ Truthy(rw.ret.value.v)
                  THEN DictUpdate(obj, rw.ret.value.v)
                  ELSE obj
        \* the stage functions called, in the order of the calls
        searched == IF needs
                    THEN <<[stage |-> "search", called |-> scalls, ret |-> sw.ret.kind]>>
                    ELSE <<>>
        refined == IF has_summary
                   THEN <<[stage |-> "refine", called |-> rcalls, ret |-> rw.ret.kind]>>
                   ELSE <<>>
    IN  IF needs /\ sw.ret.kind = "raise"
        THEN [status |-> "raise", error |-> sw.ret.error, calls |-> scalls,
              sdir |-> sdir2, rdir |-> rdir, stages |-> searched]
        ELSE IF has_summary /\ rw.ret.kind = "raise"
        THEN [status |-> "raise", error |-> rw.ret.error, calls |-> scalls + rcalls,
              sdir |-> sdir2, rdir |-> rdir2, stages |-> searched \o refined]
        ELSE LET r == CleanAndValidate(merged, message_id, is_aggregator)
             IN  [status |-> r.status,
                  error |-> IF r.status = "raise" THEN r.error ELSE "",
                  event |-> IF r.status = "event" THEN r.event ELSE merged,
                  calls |-> scalls + rcalls, sdir |-> sdir2, rdir |-> rdir2,
                  stages |-> searched \o refined \o
                             <<[stage |-> "validate", called |-> 0, ret |-> r.status]>>]

(***************************************************************************)
(* The emails table.  A body is modelled by its length; 0 is a body that   *)
(* is empty after pre-processing.                                          *)
(***************************************************************************)
Profiles ==
    {[body_len |-> N_CHARS_MAX, is_newsletter |-> TRUE, newsletter_source_type |-> "aggregate"],
     [body_len |-> N_CHARS_MAX, is_newsletter |-> TRUE, newsletter_source_type |-> "venue"],
     [body_len |-> N_CHARS_MAX + 1, is_newsletter |-> FALSE, newsletter_source_type |-> "unknown"],
     [body_len |-> N_CHARS_MAX, is_newsletter |-> FALSE, newsletter_source_type |-> "unknown"],
     [body_len |-> 0, is_newsletter |-> TRUE, newsletter_source_type |-> "venue"]}

EmailRow(i, p) ==
    [message_id |-> i, body_len |-> p.body_len, is_newsletter |-> p.is_newsletter,
     newsletter_source_type |-> p.newsletter_source_type]

EmailTables == {[i \in 1..NumEmails |-> EmailRow(i, f[i])] : f \in [1..NumEmails -> Profiles]}

(***************************************************************************)
(* Spec: runs of process/events.py main() over the store.                  *)
(***************************************************************************)
InitPipe ==
    /\ emails \in EmailTables
    /\ events_tbl = <<>>
    /\ emails_processed = {}
    /\ cache_extract = {}
    /\ cache_search = {}
    /\ cache_refine = {}
    /\ batch_size \in 0..MaxBatch
    /\ runs = 0
    /\ phase = "idle"
    /\ batch = <<>>
    /\ idx = 1
    /\ cands = <<>>
    /\ cidx = 1
    /\ final_events = <<>>
    /\ stage_log = <<>>
    /\ genCalls = [m \in MsgIds |-> 0]
    /\ outcome = [m \in MsgIds |-> "none"]

IdleCache == cfile = <<>> /\ fnCalls = <<>> /\ chist = <<>>
IdleRetry == rphase = "off" /\ attempts = <<>> /\ rresult = [kind |-> "none"]
IdleConc == kfile = Absent /\ cpc = <<>> /\ cres = <<>> /\ crounds = <<>>
IdleEvent == ekwargs = <<>> /\ eresult = [kind |-> "off"] /\ eprev = [kind |-> "nothing"]
IdleEnum == sfield = "" /\ sraw = [kind |-> "off"] /\ sclean = [kind |-> "off"]
IdleFn == fargs = <<>> /\ fret = [kind |-> "off"]
IdleUnit == IdleConc /\ IdleEvent /\ IdleEnum /\ IdleFn

Init == InitPipe /\ IdleCache /\ IdleRetry /\ IdleUnit

InLoop == phase = "loop" /\ idx <= Len(batch)
Cur == batch[idx]
CurId == Cur.message_id
AlreadyParsed == email_already_parsed(events_tbl, emails_processed, CurId)

storeVars == <<events_tbl, emails_processed>>
cacheDirs == <<cache_extract, cache_search, cache_refine>>
msgVars == <<cands, cidx, final_events, stage_log>>

\* lines 565-575
StartRun ==
    /\ phase \in {"idle", "done", "aborted"}
    /\ runs < MaxRuns
    /\ runs' = runs + 1
    /\ batch' = fetch_unprocessed_emails(emails, emails_processed, batch_size)
    /\ idx' = 1
    /\ phase' = "loop"
    /\ cands' = <<>>
    /\ cidx' = 1
    /\ final_events' = <<>>
    /\ stage_log' = <<>>
    /\ genCalls' = [m \in MsgIds |-> 0]
    /\ outcome' = [m \in MsgIds |-> "none"]
    /\ UNCHANGED <<cacheVars, retryVars, unitVars>>
    /\ UNCHANGED <<emails, batch_size, storeVars, cacheDirs>>

\* lines 583-585
SkipParsed ==
    /\ InLoop
    /\ AlreadyParsed
    /\ idx' = idx + 1
    /\ outcome' = [outcome EXCEPT ![CurId] = "skipped"]
    /\ UNCHANGED <<cacheVars, retryVars, unitVars>>
    /\ UNCHANGED <<emails, batch_size, runs, phase, batch, storeVars, cacheDirs,
                   msgVars, genCalls>>

\* lines 587-590
MarkTooLarge ==
    /\ InLoop
    /\ ~AlreadyParsed
    /\ body_too_large(Cur)
    /\ emails_processed' =
           mark_email_processed(emails_processed, CurId, FALSE, "body_too_large")
    /\ idx' = idx + 1
    /\ outcome' = [outcome EXCEPT ![CurId] = "body_too_large"]
    /\ UNCHANGED <<cacheVars, retryVars, unitVars>>
    /\ UNCHANGED <<emails, batch_size, runs, phase, batch, events_tbl, cacheDirs,
                   msgVars, genCalls>>

\* lines 592-595
MarkNotNewsletter ==
    /\ InLoop
    /\ ~AlreadyParsed
    /\ ~(body_too_large(Cur))
    /\ ~Cur.is_newsletter
    /\ emails_processed' =
           mark_email_processed(emails_processed, CurId, FALSE, "not_newsletter")
    /\ idx' = idx + 1
    /\ outcome' = [outcome EXCEPT ![CurId] = "not_newsletter"]
    /\ UNCHANGED <<cacheVars, retryVars, unitVars>>
    /\ UNCHANGED <<emails, batch_size, runs, phase, batch, events_tbl, cacheDirs,
                   msgVars, genCalls>>

Proceeds ==
    /\ InLoop
    /\ ~AlreadyParsed
    /\ ~(body_too_large(Cur))
    /\ Cur.is_newsletter

\* lines 597-611, extract_events lines 478-497: nothing left of the body
ExtractEmptyBody ==
    /\ Proceeds
    /\ Cur.body_len = 0
    /\ final_events' = <<>>
    /\ cands' = <<>>
    /\ cidx' = 1
    /\ stage_log' = <<>>
    /\ phase' = "mark"
    /\ UNCHANGED <<cacheVars, retryVars, unitVars>>
    /\ UNCHANGED <<emails, batch_size, runs, batch, idx, storeVars, cacheDirs,
                   genCalls, outcome>>

\* lines 597-611, extract_events lines 478-533: the initial extraction
\* through its cache
Extract ==
    /\ Proceeds
    /\ Cur.body_len # 0
    /\ \E resp \in ExtractionOutcomes :
         LET fn == _perform_initial_event_extraction(resp)
             w == disk_cache_wrapper(FileOf(cache_extract, CurId), fn.out)
         IN  /\ cache_extract' = PutFile(cache_extract, CurId, w.file)
             /\ genCalls' = [genCalls EXCEPT ![CurId] = @ + (IF w.invoked THEN fn.calls ELSE 0)]
             /\ final_events' = <<>>
             /\ cidx' = 1
             /\ stage_log' = <<[stage |-> "extract", cand |-> 0,
                                called |-> IF w.invoked THEN fn.calls ELSE 0,
                                ret |-> w.ret.kind]>>
             /\ IF w.ret.kind = "raise"
                THEN /\ phase' = "aborted"
                     /\ cands' = <<>>
                     /\ outcome' = [outcome EXCEPT ![CurId] =
                                        IF w.ret.error = GatewayError
                                        THEN "extraction_failed"
                                        ELSE "malformed_output"]
                ELSE /\ cands' = w.ret.value.v
                     /\ phase' = IF w.ret.value.v = <<>> THEN "mark" ELSE "cands"
                     /\ outcome' = outcome
    /\ UNCHANGED <<cacheVars, retryVars, unitVars>>
    /\ UNCHANGED <<emails, batch_size, runs, batch, idx, storeVars, cache_search,
                   cache_refine>>

\* extract_events lines 541-555: one turn of the candidate loop
ProcessCandidate ==
    /\ phase = "cands"
    /\ \E so \in SearchOutcomes, ro \in RefineOutcomes :
         LET is_agg == Cur.newsletter_source_type = "aggregate"
             r == _process_single_extracted_event(
                      cands[cidx], CurId, is_agg, so, ro, cache_search, cache_refine)
             kept == IF r.status = "event" THEN Append(final_events, r.event)
                     ELSE final_events
         IN  /\ cache_search' = r.sdir
             /\ cache_refine' = r.rdir
             /\ genCalls' = [genCalls EXCEPT ![CurId] = @ + r.calls]
             /\ stage_log' = stage_log \o [i \in 1..Len(r.stages) |->
                                               [stage |-> r.stages[i].stage, cand |-> cidx,
                                                called |-> r.stages[i].called,
                                                ret |-> r.stages[i].ret]]
             /\ IF r.status = "raise"
                THEN /\ phase' = "aborted"
                     /\ outcome' = [outcome EXCEPT ![CurId] =
                                        IF r.error = GatewayError
                                        THEN "enrichment_failed"
                                        ELSE "malformed_output"]
                     /\ UNCHANGED <<cidx, final_events>>
                ELSE /\ final_events' = kept
                     /\ cidx' = cidx + 1
                     /\ phase' = IF cidx < Len(cands) THEN "cands"
                                 ELSE IF kept # <<>> THEN "save" ELSE "mark"
                     /\ outcome' = outcome
    /\ UNCHANGED <<cacheVars, retryVars, unitVars>>
    /\ UNCHANGED <<emails, batch_size, runs, batch, idx, cands, storeVars, cache_extract>>

\* lines 613-616
Save ==
    /\ phase = "save"
    /\ events_tbl' = save_events_to_db(events_tbl, emails_processed, final_events, CurId)
    /\ phase' = "mark"
    /\ UNCHANGED <<cacheVars, retryVars, unitVars>>
    /\ UNCHANGED <<emails, batch_size, runs, batch, idx, emails_processed, cacheDirs,
                   msgVars, genCalls, outcome>>

\* lines 617-619
Mark ==
    /\ phase = "mark"
    /\ emails_processed' =
           mark_email_processed(emails_processed, CurId, TRUE,
               IF final_events # <<>> THEN "is_newsletter" ELSE "no_events_found")
    /\ outcome' = [outcome EXCEPT ![CurId] =
                       IF final_events # <<>> THEN "events_saved" ELSE "no_events_found"]
    /\ idx' = idx + 1
    /\ phase' = "loop"
    /\ UNCHANGED <<cacheVars, retryVars, unitVars>>
    /\ UNCHANGED <<emails, batch_size, runs, batch, events_tbl, cacheDirs, msgVars,
                   genCalls>>

\* line 617 or 619: the upsert request raises (main has no handler): the run
\* ends there, after the insert of line 616 if there was one
StoreError ==
    /\ phase = "mark"
    /\ phase' = "aborted"
    /\ outcome' = [outcome EXCEPT ![CurId] = "store_error"]
    /\ UNCHANGED <<cacheVars, retryVars, unitVars>>
    /\ UNCHANGED <<emails, batch_size, runs, batch, idx, storeVars, cacheDirs,
                   msgVars, genCalls>>

\* line 576: the loop is over
Finish ==
    /\ phase = "loop"
    /\ idx > Len(batch)
    /\ phase' = "done"
    /\ UNCHANGED <<cacheVars, retryVars, unitVars>>
    /\ UNCHANGED <<emails, batch_size, runs, batch, idx, storeVars, cacheDirs,
                   msgVars, genCalls, outcome>>

NextPipe ==
    \/ StartRun
    \/ SkipParsed
    \/ MarkTooLarge
    \/ MarkNotNewsletter
    \/ ExtractEmptyBody
    \/ Extract
    \/ ProcessCandidate
    \/ Save
    \/ Mark
    \/ StoreError
    \/ Finish

Next == NextPipe

Spec == Init /\ [][Next]_vars

IdlePipe ==
    /\ emails = <<>>
    /\ events_tbl = <<>>
    /\ emails_processed = {}
    /\ cache_extract = {}
    /\ cache_search = {}
    /\ cache_refine = {}
    /\ batch_size = 0
    /\ runs = 0
    /\ phase = "off"
    /\ batch = <<>>
    /\ idx = 1
    /\ cands = <<>>
    /\ cidx = 1
    /\ final_events = <<>>
    /\ stage_log = <<>>
    /\ genCalls = <<>>
    /\ outcome = <<>>

(***************************************************************************)
(* SpecCache: utils/caching.py, the wrapper around one decorated function  *)
(* called again and again.  The function is arbitrary: what it does when   *)
(* invoked is an input of each call.                                       *)
(***************************************************************************)
MaxCalls == 3       \* calls of the decorated function in one behaviour

\* argument tuples: "path" is an object whose str() is the string of "text"
\* (json.dumps(..., default=str) writes both alike); "unkeyable" (a dict
\* with a tuple as key) makes json.dumps raise TypeError; "circular" (a dict
\* that contains itself) makes it raise ValueError
ArgTuples == {"a", "text", "path", "unkeyable", "circular"}

\* line 44: what json.dumps(key_dict, sort_keys=True, default=str) does
key_dumps(args) ==
    IF args = "unkeyable" THEN Raised("TypeError")
    ELSE IF args = "circular" THEN Raised("ValueError")
    ELSE Returned(IF args = "path" THEN "text" ELSE args)

KeyDerivable(args) == key_dumps(args).kind = "value"

\* lines 32-53: md5 of json.dumps(key_dict, sort_keys=True, default=str)
cache_key(args) == "md5:" \o key_dumps(args).value

CacheKeys == {cache_key(a) : a \in {x \in ArgTuples : KeyDerivable(x)}}

PyValues ==
    {[t |-> "json", v |-> "v1"], [t |-> "json", v |-> "v2"],
     [t |-> "tuple", v |-> "v1"], [t |-> "object", v |-> "v1"]}

FnOutcomes == {ReturnedNone, Raised("error")} \cup {Returned(val) : val \in PyValues}

\* lines 29-86: one call of the wrapper
wrapper(files, args, out) ==
    IF key_dumps(args) = Raised("TypeError")
    THEN \* lines 45-50
         [ret |-> out, invoked |-> TRUE, files |-> files,
          read |-> FALSE, wrote |-> FALSE]
    ELSE IF key_dumps(args).kind = "raise"
    THEN \* any other exception of line 44 leaves the wrapper
         [ret |-> key_dumps(args), invoked |-> FALSE, files |-> files,
          read |-> FALSE, wrote |-> FALSE]
    ELSE LET w == disk_cache_wrapper(files[cache_key(args)], out)
         IN  [ret |-> w.ret, invoked |-> w.invoked,
              files |-> [files EXCEPT ![cache_key(args)] = w.file],
              read |-> w.read, wrote |-> w.wrote]

InitCache ==
    /\ cfile = [k \in CacheKeys |-> Absent]
    /\ fnCalls = [a \in ArgTuples |-> 0]
    /\ chist = <<>>
    /\ IdlePipe
    /\ IdleRetry
    /\ IdleUnit

CachedCall ==
    /\ Len(chist) < MaxCalls
    /\ \E args \in ArgTuples, out \in FnOutcomes :
         LET w == wrapper(cfile, args, out)
         IN  /\ cfile' = w.files
             /\ fnCalls' = [fnCalls EXCEPT ![args] = @ + (IF w.invoked THEN 1 ELSE 0)]
             /\ chist' = Append(chist,
                    [args |-> args, out |-> out, ret |-> w.ret, invoked |-> w.invoked,
                     read |-> w.read, wrote |-> w.wrote,
                     before |-> cfile, after |-> w.files])
    /\ UNCHANGED <<pipeVars, retryVars, unitVars>>

NextCache == CachedCall

SpecCache == InitCache /\ [][NextCache]_vars

(***************************************************************************)
(* SpecRetry: ai/get_ai_response.py, one invocation of call_llm under      *)
(* retry_call = retry(wait_exponential, stop_after_attempt(5),             *)
(* reraise=True), attempt by attempt.                                      *)
(***************************************************************************)
STOP_AFTER_ATTEMPT == 5

BackendErrors == {"APITimeoutError", "RateLimitError", "InternalServerError"}
Texts == {"text1", "text2"}

AttemptOutcomes ==
    {[kind |-> "ok", text |-> x] : x \in Texts}
        \cup {[kind |-> "error", error |-> e] : e \in BackendErrors}

\* stop=stop_after_attempt(5): no further attempt after this many
retry_stop(attempt_number) == attempt_number >= STOP_AFTER_ATTEMPT

\* variant of retry_error: reraise=False, tenacity raises its RetryError
retry_error_wrapped(last) == Raised("RetryError")

\* reraise=True: the caller gets the last attempt's exception itself
retry_error(last) == Raised(last.error)

InitRetry ==
    /\ rphase = "idle"
    /\ attempts = <<>>
    /\ rresult = [kind |-> "none"]
    /\ IdlePipe
    /\ IdleCache
    /\ IdleUnit

\* call_llm(...) is called
Invoke ==
    /\ rphase = "idle"
    /\ rphase' = "trying"
    /\ UNCHANGED <<attempts, rresult, pipeVars, cacheVars, unitVars>>

\* one attempt: the body of call_llm runs once
Attempt ==
    /\ rphase = "trying"
    /\ \E o \in AttemptOutcomes :
         /\ attempts' = Append(attempts, o)
         /\ IF o.kind = "ok"
            THEN rphase' = "returned" /\ rresult' = Returned(o.text)
            ELSE IF retry_stop(Len(attempts) + 1)
            THEN rphase' = "raised" /\ rresult' = retry_error(o)
            ELSE rphase' = "trying" /\ rresult' = rresult
    /\ UNCHANGED <<pipeVars, cacheVars, unitVars>>

NextRetry == Invoke \/ Attempt

SpecRetry == InitRetry /\ [][NextRetry]_vars

(***************************************************************************)
(* SpecConc: utils/caching.py, calls of one decorated function with one    *)
(* key made by callers that run side by side.  Each caller goes through    *)
(* the wrapper step by step: the read attempt (lines 55-68), the call of   *)
(* the function (line 71), open(cache_file, 'w') (line 78), json.dump      *)
(* (line 79), the return.  Nothing coordinates the callers.                *)
(***************************************************************************)
NumCallers == 2     \* callers running side by side
MaxRounds == 2      \* calls each caller makes

Callers == 1..NumCallers

\* what the function may do when invoked: it need not return the same
\* value twice
ConcOutcomes ==
    {ReturnedNone, Raised("error"),
     Returned([t |-> "json", v |-> "v1"]), Returned([t |-> "json", v |-> "v2"]),
     Returned([t |-> "object", v |-> "v1"])}

InitConc ==
    /\ kfile = Absent
    /\ cpc = [p \in Callers |-> "idle"]
    /\ cres = [p \in Callers |-> ReturnedNone]
    /\ crounds = [p \in Callers |-> 0]
    /\ IdlePipe
    /\ IdleCache
    /\ IdleRetry
    /\ IdleEvent
    /\ IdleEnum
    /\ IdleFn

\* the caller enters the wrapper; lines 55-68: a hit returns at once
ConcRead(p) ==
    /\ cpc[p] = "idle"
    /\ crounds[p] < MaxRounds
    /\ crounds' = [crounds EXCEPT ![p] = @ + 1]
    /\ IF CacheHit(kfile)
       THEN /\ cres' = [cres EXCEPT ![p] = Returned(json_load(kfile.text))]
            /\ cpc' = [cpc EXCEPT ![p] = "idle"]
       ELSE /\ cres' = [cres EXCEPT ![p] = ReturnedNone]
            /\ cpc' = [cpc EXCEPT ![p] = "missed"]
    /\ UNCHANGED <<kfile, pipeVars, cacheVars, retryVars, eventVars, enumVars, fnVars>>

\* line 71, then line 76: only a result that is not None is written
ConcInvoke(p) ==
    /\ cpc[p] = "missed"
    /\ \E out \in ConcOutcomes :
         /\ cres' = [cres EXCEPT ![p] = out]
         /\ cpc' = [cpc EXCEPT ![p] = IF out.kind = "value" THEN "writing" ELSE "idle"]
    /\ UNCHANGED <<kfile, crounds, pipeVars, cacheVars, retryVars, eventVars, enumVars, fnVars>>

\* line 78: opening the file for writing truncates it
ConcOpen(p) ==
    /\ cpc[p] = "writing"
    /\ kfile' = Corrupt
    /\ cpc' = [cpc EXCEPT ![p] = "dumping"]
    /\ UNCHANGED <<cres, crounds, pipeVars, cacheVars, retryVars, eventVars, enumVars, fnVars>>

\* lines 79-86
ConcDump(p) ==
    /\ cpc[p] = "dumping"
    /\ kfile' = CacheWrite(kfile, cres[p])
    /\ cpc' = [cpc EXCEPT ![p] = "idle"]
    /\ UNCHANGED <<cres, crounds, pipeVars, cacheVars, retryVars, eventVars, enumVars, fnVars>>

NextConc ==
    \E p \in Callers : ConcRead(p) \/ ConcInvoke(p) \/ ConcOpen(p) \/ ConcDump(p)

SpecConc == InitConc /\ [][NextConc]_vars

(***************************************************************************)
(* types.py: dates, times and recurrence rules as Event sees them.         *)
(*                                                                         *)
(* A date is its day number, 2024-01-01 being day 1; 0 is None.  A time is *)
(* minutes after midnight; -1 is None.  The text of a date is kept apart   *)
(* from the date: compact text is the number yyyymmdd, extended text the   *)
(* triple <<yyyy, mm, dd>>.                                                *)
(***************************************************************************)
Years == 2024..2027

IsLeap(y) == (y % 4 = 0 /\ y % 100 # 0) \/ y % 400 = 0
DaysInYear(y) == IF IsLeap(y) THEN 366 ELSE 365
DaysInMonth(y, m) ==
    IF m = 2 THEN (IF IsLeap(y) THEN 29 ELSE 28)
    ELSE IF m \in {4, 6, 9, 11} THEN 30 ELSE 31

RECURSIVE DaysBeforeYear(_)
DaysBeforeYear(y) == IF y <= 2024 THEN 0 ELSE DaysBeforeYear(y - 1) + DaysInYear(y - 1)

RECURSIVE DaysBeforeMonth(_, _)
DaysBeforeMonth(y, m) == IF m <= 1 THEN 0 ELSE DaysBeforeMonth(y, m - 1) + DaysInMonth(y, m - 1)

\* date(y, m, d)
MakeDate(y, m, d) == DaysBeforeYear(y) + DaysBeforeMonth(y, m) + d

\* the fields of a date
YearOf(n) == CHOOSE y \in Years : DaysBeforeYear(y) < n /\ n <= DaysBeforeYear(y) + DaysInYear(y)
MonthOf(n) ==
    LET y == YearOf(n)
        r == n - DaysBeforeYear(y)
    IN  CHOOSE m \in 1..12 : DaysBeforeMonth(y, m) < r /\ r <= DaysBeforeMonth(y, m) + DaysInMonth(y, m)
DayOf(n) == n - DaysBeforeYear(YearOf(n)) - DaysBeforeMonth(YearOf(n), MonthOf(n))

\* d.strftime("%Y%m%d") and datetime.strptime(text, "%Y%m%d").date()
strftime_Ymd(n) == YearOf(n) * 10000 + MonthOf(n) * 100 + DayOf(n)
strptime_Ymd(digits) == MakeDate(digits \div 10000, (digits \div 100) % 100, digits % 100)

\* variant of relativedelta_year_less_day: 365 days on
timedelta_365(n) == n + 365

\* d + relativedelta(years=1) - relativedelta(days=1)
relativedelta_year_less_day(n) ==
    LET y == YearOf(n) + 1
        m == MonthOf(n)
        d == IF DayOf(n) > DaysInMonth(y, m) THEN DaysInMonth(y, m) ELSE DayOf(n)
    IN  MakeDate(y, m, d) - 1

(***************************************************************************)
(* A recurrence rule is the text                                           *)
(*   ("RRULE:" x prefixes) FREQ=freq [;BYDAY=byday] [;COUNT=count]         *)
(*   [;UNTIL=until]                                                        *)
(* with the name of the count parameter written COUNT or count (rrulestr   *)
(* reads both) and                                                         *)
(* with until one of                                                       *)
(*   [form "none"]                                                         *)
(*   [form "basic", digits yyyymmdd, time "" | "T190000Z"]                 *)
(*   [form "extended", ymd <<yyyy, mm, dd>>, time "" | "T19:00:00Z"]       *)
(* NoRule is None.                                                         *)
(***************************************************************************)
NoRule == [kind |-> "none"]
BasicUntil(digits, time) == [form |-> "basic", digits |-> digits, time |-> time]
ExtendedUntil(ymd, time) == [form |-> "extended", ymd |-> ymd, time |-> time]
Rule(prefixes, byday, count, until) ==
    [kind |-> "rule", prefixes |-> prefixes, freq |-> "WEEKLY", byday |-> byday,
     count |-> count, count_key |-> "COUNT", until |-> until]

\* types.py lines 232-233
add_prefix(v) == IF v.prefixes = 0 THEN [v EXCEPT !.prefixes = 1] ELSE v

\* process/events.py line 396: str.removeprefix('RRULE:')
removeprefix(v) ==
    IF v.kind = "rule" /\ v.prefixes > 0 THEN [v EXCEPT !.prefixes = @ - 1] ELSE v

\* types.py lines 236-244: an UNTIL written yyyy-mm-ddThh:mm:ss[Z] is
\* replaced by datetime.fromisoformat(...).strftime("%Y%m%dT%H%M%S") [Z]
compact_time(t) == IF t = "T19:00:00Z" THEN "T190000Z" ELSE "T190000"

rewrite_iso_until(v) ==
    IF v.until.form = "extended" /\ v.until.time # ""
    THEN [v EXCEPT !.until =
             BasicUntil(v.until.ymd[1] * 10000 + v.until.ymd[2] * 100 + v.until.ymd[3],
                        compact_time(v.until.time))]
    ELSE v

\* dateutil's rrulestr accepts the text
rrulestr_ok(v) ==
    /\ v.prefixes = 1
    /\ v.byday \in {"", "MO"}
    /\ ~(v.until.form = "extended" /\ v.until.time # "")

\* rule._count is None and rule._until is None
Unbounded(v) == v.count = 0 /\ v.until.form = "none"

\* "COUNT=" in the text, "UNTIL=" in the text
CountInText(v) == v.count # 0 /\ v.count_key = "COUNT"
UntilInText(v) == v.until.form # "none"

(***************************************************************************)
(* types.py: constructing an Event from keyword arguments.  Only the       *)
(* fields the validators look at are kept.                                 *)
(***************************************************************************)
ValueError(msg) == [kind |-> "error", error |-> msg]

\* variant of until_one_year_on: the bound the model validator would use
until_year_less_day(start_date) == relativedelta_year_less_day(start_date)

\* line 254: until = start_date + timedelta(days=365)
until_one_year_on(start_date) == start_date + 365

\* lines 226-258; start_date = 0 when info.data has no start_date
validate_and_patch_rrule(v, start_date) ==
    IF v = NoRule THEN [kind |-> "ok", rule |-> NoRule]
    ELSE LET v2 == rewrite_iso_until(add_prefix(v))
         IN  IF ~rrulestr_ok(v2) THEN ValueError("rrulestr")
             ELSE IF ~Unbounded(v2) THEN [kind |-> "ok", rule |-> v2]
             ELSE IF start_date = 0 THEN ValueError("start_date is missing")
             ELSE [kind |-> "ok",
                   rule |-> [v2 EXCEPT !.until =
                               BasicUntil(strftime_Ymd(until_one_year_on(start_date)), "")]]

\* variant of dates_in_order: the order of the dates is not looked at
dates_unchecked(start_date, end_date) == TRUE

\* lines 263-264
dates_in_order(start_date, end_date) == ~(end_date # 0 /\ end_date < start_date)

\* variant of until_matches: end_date is not compared with UNTIL
until_unmatched(end_date, digits) == TRUE

\* line 280: end_date is the date the eight digits after "UNTIL=" spell
until_matches(end_date, digits) == end_date = strptime_Ymd(digits)

\* lines 260-283, on the fields after field validation
_coherence_checks(self) ==
    IF ~dates_in_order(self.start_date, self.end_date)
    THEN ValueError("end_date cannot be before start_date")
    ELSE IF /\ self.end_date = self.start_date
            /\ self.start_time # -1 /\ self.end_time # -1
            /\ self.end_time < self.start_time
    THEN ValueError("end_time earlier than start_time")
    ELSE LET r1 == self.recurrence_rule
             \* lines 270-274
             r2 == IF r1 # NoRule /\ ~CountInText(r1) /\ ~UntilInText(r1)
                   THEN [r1 EXCEPT !.until =
                           BasicUntil(strftime_Ymd(relativedelta_year_less_day(self.start_date)), "")]
                   ELSE r1
             \* lines 277-281: re.search(r"UNTIL=([0-9]{8})", ...) finds the
             \* date only in the compact text
             m == r2 # NoRule /\ self.end_date # 0 /\ r2.until.form = "basic"
         IN  IF m /\ ~until_matches(self.end_date, r2.until.digits)
             THEN ValueError("end_date does not match UNTIL in recurrence_rule")
             ELSE [kind |-> "event", event |-> [self EXCEPT !.recurrence_rule = r2]]

\* Event(**kwargs): the field validators, then the model validator
Event(kwargs) ==
    LET rr == validate_and_patch_rrule(kwargs.recurrence_rule, kwargs.start_date)
    IN  IF kwargs.start_date = 0 THEN ValueError("start_date")
        ELSE IF rr.kind = "error" THEN rr
        ELSE _coherence_checks([kwargs EXCEPT !.recurrence_rule = rr.rule])

\* process/events.py lines 375-396 and 455-461, for the same fields
CleanDatesAndConstruct(obj) ==
    IF obj.start_date = 0 THEN [kind |-> "dropped"]
    ELSE IF obj.end_date # 0 /\ obj.start_date > obj.end_date THEN [kind |-> "dropped"]
    ELSE LET e == Event([obj EXCEPT !.recurrence_rule = removeprefix(@)])
         IN  IF e.kind = "event" THEN e ELSE [kind |-> "dropped"]

(***************************************************************************)
(* SpecEvent: one Event is constructed from keyword arguments, directly or *)
(* by the pipeline from a candidate dict; the Event's fields may then be   *)
(* given back as the arguments of a second construction.                   *)
(***************************************************************************)
StartDates == {0, MakeDate(2024, 2, 29), MakeDate(2025, 5, 19), MakeDate(2025, 6, 20)}
EndDates == {0, MakeDate(2025, 5, 19), MakeDate(2025, 6, 19), MakeDate(2025, 6, 20),
             MakeDate(2026, 5, 19)}
StartTimes == {-1, 600}
EndTimes == {-1, 540, 600}
Untils ==
    {[form |-> "none"], BasicUntil(20250619, ""), BasicUntil(20250619, "T190000Z"),
     ExtendedUntil(<<2025, 6, 19>>, "T19:00:00Z"), ExtendedUntil(<<2025, 6, 19>>, "")}
Rules ==
    {NoRule} \cup {Rule(p, b, c, u) : p \in 0..2, b \in {"", "MO", "XX"}, c \in {0, 3},
                                      u \in Untils}
    \cup {[Rule(p, b, 3, [form |-> "none"]) EXCEPT !.count_key = "count"] :
              p \in 0..2, b \in {"", "MO", "XX"}}

InitEvent ==
    /\ ekwargs \in [start_date : StartDates, end_date : EndDates,
                    start_time : StartTimes, end_time : EndTimes,
                    recurrence_rule : Rules]
    /\ eresult = [kind |-> "pending"]
    /\ eprev = [kind |-> "nothing"]
    /\ IdlePipe
    /\ IdleCache
    /\ IdleRetry
    /\ IdleConc
    /\ IdleEnum
    /\ IdleFn

\* Event(**kwargs)
Construct ==
    /\ eresult.kind = "pending"
    /\ eresult' = Event(ekwargs)
    /\ UNCHANGED <<ekwargs, eprev, pipeVars, cacheVars, retryVars, concVars, enumVars, fnVars>>

\* _process_single_extracted_event on the candidate
ProcessAndConstruct ==
    /\ eresult.kind = "pending"
    /\ eresult' = CleanDatesAndConstruct(ekwargs)
    /\ UNCHANGED <<ekwargs, eprev, pipeVars, cacheVars, retryVars, concVars, enumVars, fnVars>>

\* the Event's fields become the arguments of another construction, as they
\* are or as a candidate dict whose rule lost its leading marker
FeedBack ==
    /\ eresult.kind = "event"
    /\ eprev.kind = "nothing"
    /\ eresult.event.recurrence_rule # NoRule
    /\ eprev' = eresult.event.recurrence_rule
    /\ \E strip \in BOOLEAN :
         ekwargs' = IF strip
                    THEN [eresult.event EXCEPT !.recurrence_rule = removeprefix(@)]
                    ELSE eresult.event
    /\ eresult' = [kind |-> "pending"]
    /\ UNCHANGED <<pipeVars, cacheVars, retryVars, concVars, enumVars, fnVars>>

NextEvent == Construct \/ ProcessAndConstruct \/ FeedBack

SpecEvent == InitEvent /\ [][NextEvent]_vars

(***************************************************************************)
(* SpecEnum: process/events.py lines 401-430, the sanitizing of            *)
(* target_audiences and event_types.  An entry of a list is [t, v]: a      *)
(* string (t = "str"), a number, or a JSON object, which Python cannot     *)
(* hash.                                                                   *)
(***************************************************************************)
MaxLen == 3         \* longest list a candidate carries in the field

Str(v) == [t |-> "str", v |-> v]

\* some of the values of the two enums of types.py
EventTargetAudience == {"all", "families", "tbc"}
EventType == {"music", "film", "tbc"}

allowed(field) == IF field = "target_audiences" THEN EventTargetAudience ELSE EventType

Entries ==
    {Str("families"), Str("music"), Str("tbc"), Str("bogus"), [t |-> "int", v |-> "7"],
     [t |-> "dict", v |-> "{}"]}


RECURSIVE SeqsUpTo(_, _)
SeqsUpTo(S, n) ==
    IF n = 0 THEN {<<>>}
    ELSE LET shorter == SeqsUpTo(S, n - 1)
         IN  shorter \cup {Append(q, x) : q \in {r \in shorter : Len(r) = n - 1}, x \in S}

\* what obj may hold under the key: nothing, a value that is not a list, a list
RawFields ==
    {[kind |-> "missing"], [kind |-> "scalar", v |-> "music"]}
        \cup {[kind |-> "list", items |-> l] : l \in SeqsUpTo(Entries, MaxLen)}

\* [t for t in original if isinstance(t, str) and t in allowed]
RECURSIVE filtered(_, _)
filtered(original, field) ==
    IF original = <<>> THEN <<>>
    ELSE LET t == Head(original)
             rest == filtered(Tail(original), field)
         IN  IF t.t = "str" /\ t.v \in allowed(field) THEN <<t>> \o rest ELSE rest

\* lines 408-418 for target_audiences, 420-430 for event_types: when
\* entries were filtered out, set(original) is built for the log message,
\* which raises TypeError if an entry cannot be hashed
sanitize_list(original, field) ==
    LET kept == filtered(original, field)
    IN  IF Len(original) > Len(kept) /\ \E i \in 1..Len(original) : original[i].t = "dict"
        THEN Raised("TypeError")
        ELSE [kind |-> "list", items |-> IF kept # <<>> THEN kept ELSE <<Str("tbc")>>]

\* lines 402-430
sanitize(field, raw) ==
    LET lst == IF raw.kind # "list" THEN <<>> ELSE raw.items
    IN  IF Len(lst) # 0 THEN sanitize_list(lst, field)
        ELSE [kind |-> "list", items |-> <<Str("tbc")>>]

InitEnum ==
    /\ sfield \in {"target_audiences", "event_types"}
    /\ sraw \in RawFields
    /\ sclean = [kind |-> "pending"]
    /\ IdlePipe
    /\ IdleCache
    /\ IdleRetry
    /\ IdleConc
    /\ IdleEvent
    /\ IdleFn

Sanitize ==
    /\ sclean.kind = "pending"
    /\ sclean' = sanitize(sfield, sraw)
    /\ UNCHANGED <<sfield, sraw, pipeVars, cacheVars, retryVars, concVars, eventVars, fnVars>>

NextEnum == Sanitize

SpecEnum == InitEnum /\ [][NextEnum]_vars

(***************************************************************************)
(* SpecFields: the scalar enum fields and the two identifying fields of    *)
(* one candidate through _process_single_extracted_event (events.py        *)
(* 347-348, 364-366, 398-399, 433-461) and the Event model (types.py       *)
(* 170-224).  A dict is a record over FieldKeys whose value Missing means  *)
(* the key is not in the dict and PyNone means it maps to None; booleans   *)
(* are written as Python prints them.  The candidate has a valid           *)
(* start_date and valid lists, so only these fields decide the outcome.    *)
(***************************************************************************)
Missing == "<missing>"
PyNone == "<None>"
PyBool(b) == IF b THEN "True" ELSE "False"

ScalarEnumFields == {"occurrence_type", "location_type", "time_of_day", "booking_type"}
FieldKeys == ScalarEnumFields \cup {"email_message_id", "from_aggregator"}

TimeOfDay == {"early_morning", "late_morning", "morning", "afternoon", "evening",
              "night", "all_day", "tbc"}
EventOccurrenceType == {"one_off", "recurring", "course_session", "series_part", "tbc"}
EventBookingType == {"required", "recommended", "not_required", "tbc"}

enum_of(k) ==
    IF k = "occurrence_type" THEN EventOccurrenceType
    ELSE IF k = "location_type" THEN EventLocationType
    ELSE IF k = "time_of_day" THEN TimeOfDay
    ELSE EventBookingType

\* obj.update(enrichment_updates): the keys of the update replace the dict's
dict_update(obj, upd) ==
    [k \in DOMAIN obj |-> IF upd[k] # Missing THEN upd[k] ELSE obj[k]]

\* obj.setdefault(k, v): an existing key keeps its value, None included
setdefault(obj, k, v) == IF obj[k] = Missing THEN [obj EXCEPT ![k] = v] ELSE obj

\* lines 398-399 and 439-440; booking_type has no line of its own
clean_scalars(obj) ==
    LET o1 == IF obj.time_of_day \in {Missing, PyNone, ""}
              THEN [obj EXCEPT !.time_of_day = "tbc"] ELSE obj
        o2 == setdefault(o1, "occurrence_type", "tbc")
    IN  setdefault(o2, "location_type", "tbc")

\* variant of set_ids: the dict keeps what it has for the two fields
ids_kept(obj, message_id, is_aggregator) == obj

\* lines 347-348 and again 444-445
set_ids(obj, message_id, is_aggregator) ==
    [obj EXCEPT !.email_message_id = message_id,
                !.from_aggregator = PyBool(is_aggregator)]

\* types.py 170-224: Event(**obj) for these fields.  A key that is missing
\* takes the field's default; None is accepted only by booking_type and
\* from_aggregator; any other value must be a member of the field's enum.
EventOfFields(obj) ==
    LET required == ScalarEnumFields \ {"booking_type"}
        ok == /\ \A k \in required : obj[k] \in enum_of(k) \cup {Missing}
              /\ obj.booking_type \in EventBookingType \cup {Missing, PyNone}
              /\ obj.email_message_id \notin {Missing, PyNone}
              /\ obj.from_aggregator \in {"True", "False", Missing, PyNone}
        field(k) == IF obj[k] # Missing THEN obj[k]
                    ELSE IF k \in required THEN "tbc"
                    ELSE PyNone
    IN  IF ok THEN [kind |-> "event", event |-> [k \in DOMAIN obj |-> field(k)]]
        ELSE [kind |-> "dropped"]

\* _process_single_extracted_event for these fields; upd is the refinement
\* update merged at line 365, or the empty dict when none is merged
process_fields(obj, upd, message_id, is_aggregator) ==
    LET o1 == set_ids(obj, message_id, is_aggregator)
        o2 == dict_update(o1, upd)
        o3 == clean_scalars(o2)
        o4 == set_ids(o3, message_id, is_aggregator)
    IN  EventOfFields(o4)

EmptyDict == [k \in FieldKeys |-> Missing]

\* what a dict may have for an enum field: nothing, null, tbc, another
\* member of the enum, or a string outside it
FirstOf(k) ==
    IF k = "occurrence_type" THEN "one_off"
    ELSE IF k = "location_type" THEN "venue"
    ELSE IF k = "time_of_day" THEN "evening"
    ELSE "required"
GivenValues(k) == {Missing, PyNone, "tbc", FirstOf(k), "bogus"}

\* the extraction output for one candidate, with or without values of its
\* own for the two identifying fields
FieldCandidates ==
    {[k \in FieldKeys |->
        IF k \in ScalarEnumFields THEN f[k]
        ELSE IF ~carried THEN Missing
        ELSE IF k = "email_message_id" THEN "other-id" ELSE "True"] :
     f \in {g \in [ScalarEnumFields -> UNION {GivenValues(k) : k \in ScalarEnumFields}] :
               \A k \in ScalarEnumFields : g[k] \in GivenValues(k)},
     carried \in BOOLEAN}

\* the refinement updates: one enum field outside its enum, one valid
\* change, or values for the two identifying fields
FieldUpdates ==
    {[EmptyDict EXCEPT ![k] = "bogus"] : k \in ScalarEnumFields}
    \cup {[EmptyDict EXCEPT !.occurrence_type = "recurring"],
          [EmptyDict EXCEPT !.email_message_id = "other-id", !.from_aggregator = "False"]}

InitFields ==
    /\ fargs \in {a \in [obj : FieldCandidates, upd : FieldUpdates \cup {EmptyDict},
                         message_id : {"m1"}, is_aggregator : BOOLEAN] :
                     \* a refinement update exists only for an aggregator's message
                     a.is_aggregator \/ a.upd = EmptyDict}
    /\ fret = [kind |-> "pending"]
    /\ IdlePipe
    /\ IdleCache
    /\ IdleRetry
    /\ IdleConc
    /\ IdleEvent
    /\ IdleEnum

ProcessFields ==
    /\ fret.kind = "pending"
    /\ "obj" \in DOMAIN fargs
    /\ fret' = process_fields(fargs.obj, fargs.upd, fargs.message_id, fargs.is_aggregator)
    /\ UNCHANGED <<fargs, pipeVars, cacheVars, retryVars, concVars, eventVars, enumVars>>

NextFields == ProcessFields

SpecFields == InitFields /\ [][NextFields]_vars

(***************************************************************************)
(* SpecGate: the completeness gate _is_complete (events.py 259-281)        *)
(* applied to one candidate dict.  The score is absent (-1) or a number.   *)
(***************************************************************************)
GateCandidates ==
    {[BaseCand EXCEPT !.title = t, !.start_date = d, !.location_type = l,
                      !.parsing_confidence_score = s, !.organizer_name = o,
                      !.location_address_verbatim = a, !.location_postcode = p,
                      !.event_url = u[1], !.booking_url = u[2]] :
     t \in {"", "Life drawing"}, d \in {0, 1}, l \in {"", "venue", "online"},
     s \in {-1, 35, 39, 40, 100}, o \in {"", "org"}, a \in {"", "addr"},
     p \in {"", "E8 3DL"}, u \in {"", "url"} \X {"", "url"}}

InitGate ==
    /\ fargs \in [ev : GateCandidates, is_aggregator : BOOLEAN]
    /\ fret = [kind |-> "pending"]
    /\ IdlePipe
    /\ IdleCache
    /\ IdleRetry
    /\ IdleConc
    /\ IdleEvent
    /\ IdleEnum

Gate ==
    /\ fret.kind = "pending"
    /\ fret' = [kind |-> "bool", value |-> _is_complete(fargs.ev, fargs.is_aggregator)]
    /\ UNCHANGED <<fargs, pipeVars, cacheVars, retryVars, concVars, eventVars, enumVars>>

NextGate == Gate

SpecGate == InitGate /\ [][NextGate]_vars

(***************************************************************************)
(* SpecRequest: the request call_llm builds for its backend                *)
(* (ai/get_ai_response.py 65-150).  The request is a record over           *)
(* RequestKeys; Missing means the key is not among the keyword arguments   *)
(* passed to the client, PyNone that it is passed as None.  Argument       *)
(* values are named by strings; "{}" is the empty dict.                    *)
(***************************************************************************)
RequestKeys == {"model", "system", "messages", "temperature", "max_tokens", "timeout",
                "tools", "response_format", "web_search_options"}

\* `if web_search_options:` is false for None and for the empty dict
OptionsGiven(web_search_options) == web_search_options \notin {PyNone, "{}"}

call_llm_request(a) ==
    LET none == [k \in RequestKeys |-> Missing]
    IN  IF a.provider = "openai"
        THEN LET openai_params ==
                     [none EXCEPT !.model = a.model,
                                  !.messages = IF a.system \in {PyNone, ""}
                                               THEN <<"user">> ELSE <<"system", "user">>,
                                  !.temperature = a.temperature,
                                  !.max_tokens = a.max_tokens,
                                  !.timeout = a.timeout,
                                  !.tools = a.tools,
                                  !.response_format = a.response_format]
             IN  [kind |-> "request", client |-> "openai",
                  params |->
                      IF a.enable_web_search /\ OptionsGiven(a.web_search_options)
                      THEN [openai_params EXCEPT
                                !.web_search_options = a.web_search_options,
                                !.response_format = Missing,
                                !.timeout = Missing,
                                !.tools = Missing,
                                !.temperature = Missing]
                      ELSE openai_params]
        ELSE IF a.provider = "anthropic"
        THEN LET anthropic_params ==
                     [none EXCEPT !.model = a.model,
                                  !.system = a.system,
                                  !.messages = <<"user">>,
                                  !.temperature = a.temperature,
                                  !.max_tokens = a.max_tokens]
                 max_uses == IF a.web_search_options = "{max_uses: 3}" THEN "3" ELSE "5"
             IN  [kind |-> "request", client |-> "anthropic",
                  params |->
                      IF a.enable_web_search
                      THEN [anthropic_params EXCEPT
                                !.tools = <<"web_search_20250305", max_uses>>]
                      ELSE anthropic_params]
        ELSE Raised("ValueError")

InitRequest ==
    /\ fargs \in [provider : {"openai", "anthropic", "other"},
                  model : {"model"},
                  system : {PyNone, "system prompt"},
                  temperature : {"0.2"},
                  max_tokens : {"12000"},
                  timeout : {"180"},
                  tools : {PyNone, "[tool]"},
                  response_format : {PyNone, "json_object"},
                  enable_web_search : BOOLEAN,
                  web_search_options : {PyNone, "{}", "{search_context_size: medium}",
                                        "{max_uses: 3}"}]
    /\ fret = [kind |-> "pending"]
    /\ IdlePipe
    /\ IdleCache
    /\ IdleRetry
    /\ IdleConc
    /\ IdleEvent
    /\ IdleEnum

Request ==
    /\ fret.kind = "pending"
    /\ fret' = call_llm_request(fargs)
    /\ UNCHANGED <<fargs, pipeVars, cacheVars, retryVars, concVars, eventVars, enumVars>>

NextRequest == Request

SpecRequest == InitRequest /\ [][NextRequest]_vars

(***************************************************************************)
(* Properties                                                              *)
(***************************************************************************)
MarkersOf(m) == {r \in emails_processed : r.message_id = m}
InBatch(b, m) == \E i \in 1..Len(b) : b[i].message_id = m

\* C1: a message of the batch that already has events stored, or a row in
\* the ledger, is skipped: the step that handles it makes no gateway call,
\* saves no event, writes no marker and moves on to the next message, and a
\* skipped message has no gateway call and no marker in that run.
C1_SkipStep ==
    (InLoop /\ (HasEvents(events_tbl, CurId) \/ HasMarker(emails_processed, CurId)))
        => /\ genCalls' = genCalls
           /\ events_tbl' = events_tbl
           /\ emails_processed' = emails_processed
           /\ cache_extract' = cache_extract
           /\ idx' = idx + 1
           /\ phase' = "loop"
C1_Skipped ==
    \A m \in DOMAIN outcome :
        outcome[m] = "skipped" => genCalls[m] = 0 /\ MarkersOf(m) = {}
C1_AlreadyParsedIsSkipped == [][C1_SkipStep]_vars /\ []C1_Skipped
C1_Witness == \E m \in DOMAIN outcome : outcome[m] = "skipped" /\ HasEvents(events_tbl, m)

\* C2: when a run over a batch has ended, every message of the batch has
\* exactly one row in the ledger.
C2_OneMarkerPerMessage ==
    phase = "done" =>
        \A i \in 1..Len(batch) : Cardinality(MarkersOf(batch[i].message_id)) = 1

\* C3 (as stated): of two successive calls with the same arguments, the
\* second returns what the first returned and does not invoke the function.
SameArgsLater(i, j) ==
    /\ i < j
    /\ chist[i].args = chist[j].args
    /\ \A k \in (i + 1)..(j - 1) : chist[k].args # chist[i].args
Cacheable(c) ==
    KeyDerivable(c.args) /\ c.ret.kind = "value" /\ c.ret.value.t = "json"
C4_OnlyCompleteEvents ==
    /\ \A i \in 1..Len(final_events) :
           _is_complete(final_events[i], final_events[i].from_aggregator)
    /\ \A i \in 1..Len(events_tbl) :
           _is_complete(events_tbl[i], events_tbl[i].from_aggregator)

\* C5: when the gateway call of a message's initial extraction fails, the
\* run ends with no event saved, no marker and no cache entry for the
\* message, and the next run fetches it, reaches it (everything before it in
\* the batch is skipped as already parsed) and finds it neither parsed nor
\* cached.
C5_FailedState ==
    \A m \in DOMAIN outcome :
        outcome[m] = "extraction_failed"
            => /\ phase = "aborted"
               /\ MarkersOf(m) = {}
               /\ ~HasEvents(events_tbl, m)
               /\ FileOf(cache_extract, m).kind = "absent"
C5_NextRun ==
    \A m \in DOMAIN outcome :
        (outcome[m] = "extraction_failed" /\ runs' = runs + 1)
            => /\ \E i \in 1..Len(batch') :
                    /\ batch'[i].message_id = m
                    /\ \A j \in 1..(i - 1) :
                           email_already_parsed(events_tbl', emails_processed',
                                                batch'[j].message_id)
               /\ ~email_already_parsed(events_tbl', emails_processed', m)
               /\ FileOf(cache_extract', m).kind = "absent"
               /\ genCalls'[m] = 0
C5_FailedExtractionIsRetried == []C5_FailedState /\ [][C5_NextRun]_vars
C5_Witness == \E m \in DOMAIN outcome : outcome[m] = "extraction_failed"

\* C6: a search or refinement call that throws is swallowed: it never ends
\* the run.
C6_EnrichmentFailureSwallowed ==
    \A m \in DOMAIN outcome : outcome[m] # "enrichment_failed"

\* C7: a candidate whose Event construction fails is dropped by a step that
\* keeps the events accepted so far, makes no call and moves on to the next
\* candidate; once the candidate loop is over every candidate that is valid
\* as extracted is among the returned events, and the message goes on to be
\* saved and marked.
CandidatesDone == phase \in {"save", "mark"} /\ cands # <<>>
C7_DropStep ==
    (phase = "cands" /\ cands[cidx] = CandBadEnum)
        => /\ final_events' = final_events
           /\ cidx' = cidx + 1
           /\ genCalls' = genCalls
           /\ phase' = IF cidx < Len(cands) THEN "cands"
                       ELSE IF final_events # <<>> THEN "save" ELSE "mark"
C7_MarkStep ==
    /\ phase = "save" => phase' = "mark"
    /\ (phase = "mark" /\ phase' # "aborted")
           => \E r \in emails_processed' : r.message_id = CurId /\ r.parsed_ok
C7_SiblingsKept ==
    CandidatesDone =>
        \A i \in 1..Len(cands) :
            cands[i] = CandFull =>
                \E j \in 1..Len(final_events) :
                    final_events[j] =
                        Normalize(CandFull, CurId,
                                  Cur.newsletter_source_type = "aggregate")
C7_InvalidCandidateOnlyDropped ==
    [][C7_DropStep /\ C7_MarkStep]_vars /\ []C7_SiblingsKept
C7_Witness ==
    /\ phase = "loop"
    /\ idx > 1
    /\ outcome[batch[idx - 1].message_id] = "events_saved"
    /\ MarkersOf(batch[idx - 1].message_id) # {}
    /\ \E i \in 1..Len(cands) : cands[i] = CandBadEnum
    /\ \E i \in 1..Len(cands) : cands[i] = CandFull

\* C8: a gateway failure while processing one message does not keep the
\* other messages of the batch from being processed in that run: every
\* message of the batch has been handled when the run is over.
C8_OtherMessagesStillProcessed ==
    (phase = "aborted" /\ \E m \in DOMAIN outcome : outcome[m] = "extraction_failed")
        => \A i \in 1..Len(batch) : outcome[batch[i].message_id] # "none"

\* C9: a message whose body is over the limit, or that is not a newsletter,
\* never causes a gateway call and never has events; once a run has handled
\* it, its one marker is [parsed_ok false, reason], the reason being
\* body_too_large whenever the body is over the limit.
ShortCircuitReason(e) ==
    IF e.body_len > 40000 THEN "body_too_large" ELSE "not_newsletter"
C9_ShortCircuit ==
    \A i \in 1..Len(emails) :
        LET e == emails[i]
            m == e.message_id
            row == [message_id |-> m, parsed_ok |-> FALSE, note |-> ShortCircuitReason(e)]
        IN  /\ (e.body_len > 40000 \/ ~e.is_newsletter)
                => /\ genCalls[m] = 0
                   /\ ~HasEvents(events_tbl, m)
                   /\ MarkersOf(m) \subseteq {row}
                   /\ outcome[m] \in {"none", ShortCircuitReason(e)}
                   /\ outcome[m] # "none" => MarkersOf(m) = {row}
            /\ outcome[m] \in {"body_too_large", "not_newsletter"}
                => (e.body_len > 40000 \/ ~e.is_newsletter)
C9_Witness ==
    \E i \in 1..Len(emails) :
        /\ emails[i].body_len > 40000
        /\ ~emails[i].is_newsletter
        /\ outcome[emails[i].message_id] = "body_too_large"
        /\ MarkersOf(emails[i].message_id) # {}

\* C10: one call_llm invocation makes at most 5 attempts; it returns the
\* text of its first successful attempt, which is its last attempt; when 5
\* attempts have failed it raises the error of the fifth, as it is.
AllFailed(n) == \A i \in 1..n : attempts[i].kind = "error"
C10_RetryContract ==
    LET n == Len(attempts)
    IN  /\ n <= 5
        /\ rphase = "trying" => n < 5 /\ AllFailed(n)
        /\ rphase = "returned"
               => /\ n >= 1
                  /\ attempts[n].kind = "ok"
                  /\ AllFailed(n - 1)
                  /\ rresult = Returned(attempts[n].text)
        /\ rphase = "raised"
               => /\ n = 5
                  /\ AllFailed(n)
                  /\ rresult = Raised(attempts[n].error)
C10_Witness == rphase = "raised" /\ Len(attempts) = 5

\* C11: malformed generation output is never raised: no run is ended by an
\* extraction or refinement response that is not the JSON expected.
C11_MalformedNeverRaised ==
    \A m \in DOMAIN outcome : outcome[m] # "malformed_output"

\* C12: a call that misses the cache invokes the wrapped function and gives
\* its caller what the function did; afterwards the key has a usable entry
\* if and only if the function returned a value other than None that
\* json.dump accepts, the entry is the JSON text of that value, and a value
\* json.dump rejects is still returned to the caller.  The function has been
\* invoked once per call that invoked it.
IsMiss(c) == KeyDerivable(c.args) /\ ~CacheHit(c.before[cache_key(c.args)])
Persistable(out) == out.kind = "value" /\ Serializable(out.value)
C13_KeyFailureBypassesCache ==
    \A i \in 1..Len(chist) :
        LET c == chist[i]
        IN  ~KeyDerivable(c.args) =>
                /\ c.invoked
                /\ c.ret = c.out
                /\ ~c.read /\ ~c.wrote
                /\ c.after = c.before

\* C14: once the key has a usable entry the file never changes again,
\* whatever the callers do: the value stored stays the first writer's.
C14_EntryIsReadOnly == [][CacheHit(kfile) => kfile' = kfile]_vars

\* C15: when the rule given has neither COUNT nor UNTIL and the Event is
\* constructed, its recurrence_rule ends in UNTIL= followed by the eight
\* digits of start_date + 365 days and nothing else.
GivenUnbounded ==
    /\ ekwargs.recurrence_rule # NoRule
    /\ Unbounded(ekwargs.recurrence_rule)
C15_UnboundedRuleCappedAt365Days ==
    (eresult.kind = "event" /\ GivenUnbounded)
        => LET u == eresult.event.recurrence_rule.until
           IN  /\ u.form = "basic"
               /\ u.time = ""
               /\ strptime_Ymd(u.digits) = ekwargs.start_date + 365
               /\ u.digits \in {20250228, 20260519, 20260620}
C15_Witness ==
    /\ eresult.kind = "event"
    /\ GivenUnbounded
    /\ ekwargs.start_date = MakeDate(2024, 2, 29)
    /\ eresult.event.recurrence_rule.until.digits = 20250228

\* C16: no Event constructed has an end_date before its start_date, and
\* arguments with end_date before start_date give no Event, neither from the
\* constructor nor from the pipeline.
C16_EndDateNotBeforeStart ==
    /\ eresult.kind = "event"
           => ~(eresult.event.end_date # 0
                /\ eresult.event.end_date < eresult.event.start_date)
    /\ (ekwargs.start_date # 0 /\ ekwargs.end_date # 0
        /\ ekwargs.end_date < ekwargs.start_date /\ eresult.kind # "pending")
           => eresult.kind \in {"error", "dropped"}
C16_Witness ==
    /\ ekwargs.start_date = MakeDate(2025, 6, 20)
    /\ ekwargs.end_date = MakeDate(2025, 6, 19)
    /\ eresult = ValueError("end_date cannot be before start_date")

\* C17: an Event constructed for a single day (end_date equal to start_date,
\* or None) with both times set has end_time not before start_time.
C17_SameDayTimesInOrder ==
    (/\ eresult.kind = "event"
     /\ eresult.event.end_date \in {0, eresult.event.start_date}
     /\ eresult.event.start_time # -1
     /\ eresult.event.end_time # -1)
        => eresult.event.end_time >= eresult.event.start_time

\* C18: an Event constructed with an end_date and a rule that has an UNTIL
\* has the UNTIL on the day of end_date.
UntilDate(u) ==
    IF u.form = "basic" THEN strptime_Ymd(u.digits)
    ELSE MakeDate(u.ymd[1], u.ymd[2], u.ymd[3])
C18_UntilMatchesEndDate ==
    (/\ eresult.kind = "event"
     /\ eresult.event.end_date # 0
     /\ eresult.event.recurrence_rule # NoRule
     /\ eresult.event.recurrence_rule.until.form # "none")
        => UntilDate(eresult.event.recurrence_rule.until) = eresult.event.end_date

\* C19: the rule of an Event constructed starts with the marker exactly
\* once and has its UNTIL in compact form, and constructing again from that
\* rule, with or without its marker, gives the same rule.
C19_RuleNormalizedOnce ==
    (eresult.kind = "event" /\ eresult.event.recurrence_rule # NoRule)
        => /\ eresult.event.recurrence_rule.prefixes = 1
           /\ eresult.event.recurrence_rule.until.form # "extended"
           /\ eprev.kind # "nothing" => eresult.event.recurrence_rule = eprev

\* C20: the sanitized list is the input's entries that are strings of the
\* field's enum, in the input's order; it is ["tbc"] when there is none or
\* the field is missing, empty or not a list; so it is never empty and holds
\* only values of the enum.
ValidAt(i) ==
    sraw.kind = "list" /\ sraw.items[i].t = "str" /\ sraw.items[i].v \in allowed(sfield)
ValidIndexes == IF sraw.kind = "list" THEN {i \in 1..Len(sraw.items) : ValidAt(i)} ELSE {}
NthValid(n) == CHOOSE k \in ValidIndexes : Cardinality({j \in ValidIndexes : j < k}) = n - 1
C20_EnumListsSanitized ==
    sclean.kind # "pending" =>
        /\ sclean.kind = "list"
        /\ Len(sclean.items) >= 1
        /\ \A i \in 1..Len(sclean.items) :
               sclean.items[i].t = "str" /\ sclean.items[i].v \in allowed(sfield)
        /\ IF ValidIndexes = {}
           THEN sclean.items = <<Str("tbc")>>
           ELSE /\ Len(sclean.items) = Cardinality(ValidIndexes)
                /\ \A i \in 1..Len(sclean.items) : sclean.items[i] = sraw.items[NthValid(i)]

\* C21: in every Event the pipeline returns, each of occurrence_type,
\* location_type, time_of_day and booking_type holds a member of its enum,
\* never None, and holds tbc when neither the candidate nor a merged update
\* supplied the field.
C21_ScalarEnumsNeverNull ==
    (fret.kind = "event") =>
        \A k \in ScalarEnumFields :
            /\ fret.event[k] \in enum_of(k)
            /\ (fargs.obj[k] = Missing /\ fargs.upd[k] = Missing) => fret.event[k] = "tbc"

\* C22: a refinement update whose value for an enum field is not a member of
\* the enum never causes the candidate to be dropped, and the Event built
\* has tbc in that field.
InvalidInUpdate(k) == fargs.upd[k] \notin enum_of(k) \cup {Missing}
C22_InvalidUpdateEnumBecomesTbc ==
    (fret.kind \in {"event", "dropped"}) =>
        \A k \in ScalarEnumFields :
            InvalidInUpdate(k) => fret.kind = "event" /\ fret.event[k] = "tbc"

\* C25: every Event returned for a message has the message's id as
\* email_message_id and the message's aggregator flag as from_aggregator,
\* whatever the extraction output or the merged update had for the two.
C25_IdsAreTheMessages ==
    (fret.kind = "event") =>
        /\ fret.event.email_message_id = fargs.message_id
        /\ fret.event.from_aggregator = PyBool(fargs.is_aggregator)
C25_Witness ==
    /\ fret.kind = "event"
    /\ fargs.obj.email_message_id = "other-id"
    /\ fargs.upd.email_message_id = "other-id"
    /\ fargs.upd.from_aggregator # PyBool(fargs.is_aggregator)

\* C23: _is_complete is true exactly when title, start_date and
\* location_type are present and the score is at least 0.4 and, for an
\* aggregator's candidate, organizer_name is present, address and postcode
\* are both present whenever location_type is venue, and event_url or
\* booking_url is present.
C23_CompleteExactlyWhen ==
    (fret.kind = "bool") =>
        LET ev == fargs.ev
            baseline == /\ ev.title # ""
                        /\ ev.start_date # 0
                        /\ ev.location_type # ""
                        /\ ev.parsing_confidence_score >= 40
            aggregator == /\ ev.organizer_name # ""
                          /\ (ev.location_type = "venue") =>
                                 (ev.location_address_verbatim # "" /\ ev.location_postcode # "")
                          /\ (ev.event_url # "" \/ ev.booking_url # "")
        IN  fret.value <=> (baseline /\ (fargs.is_aggregator => aggregator))
C23_Witness ==
    /\ fret.kind = "bool"
    /\ fret.value
    /\ fargs.is_aggregator
    /\ fargs.ev.location_type = "venue"
    /\ fargs.ev.parsing_confidence_score = 40

\* C24: whenever call_llm is invoked with web search enabled for the OpenAI
\* backend, the request it sends has none of temperature, tools, timeout
\* and response_format.
C24_SearchRequestDropsIncompatible ==
    (fret.kind = "request" /\ fargs.provider = "openai" /\ fargs.enable_web_search) =>
        \A k \in {"temperature", "tools", "timeout", "response_format"} :
            fret.params[k] = Missing

\* C26: over any sequence of runs, a step that changes the events table
\* appends rows of one message that had no row in it before, so the events
\* of a message are inserted in at most one batch.
C26_InsertStep ==
    (events_tbl' # events_tbl) =>
        \E m \in MsgIds :
            /\ ~HasEvents(events_tbl, m)
            /\ Len(events_tbl') > Len(events_tbl)
            /\ SubSeq(events_tbl', 1, Len(events_tbl)) = events_tbl
            /\ \A i \in (Len(events_tbl) + 1)..Len(events_tbl') :
                   events_tbl'[i].email_message_id = m
C26_AtMostOneBatch == [][C26_InsertStep]_vars
C26_Witness ==
    /\ runs = 2
    /\ phase = "done"
    /\ \E m \in MsgIds :
           /\ HasEvents(events_tbl, m)
           /\ ~HasMarker(emails_processed, m)
           /\ InBatch(batch, m)

\* C27: for one message the extraction call comes first and is made at most
\* once; the candidates are processed in order; for each candidate the
\* search is called only for an aggregator's message and a candidate with
\* no postcode, no organizer name, or a venue without address, the
\* refinement only after that search returned a summary, validation only
\* after both; each of the two causes at most one call of the gateway.
EntriesOf(c) == SelectSeq(stage_log, LAMBDA e : e.cand = c)
StagesOf(c) == [i \in 1..Len(EntriesOf(c)) |-> EntriesOf(c)[i].stage]
NeedsEnrichment(ev) ==
    \/ ev.location_postcode = ""
    \/ ev.organizer_name = ""
    \/ (ev.location_type = "venue" /\ ev.location_address_verbatim = "")
C27_StagesInOrder ==
    /\ \A i \in 1..Len(stage_log) :
           /\ (stage_log[i].stage = "extract") <=> (i = 1)
           /\ stage_log[i].called <= 1
           /\ (i < Len(stage_log)) => stage_log[i].cand <= stage_log[i + 1].cand
    /\ (phase \in {"cands", "save", "mark", "aborted"}) =>
           \A c \in 1..Len(cands) :
               LET es == EntriesOf(c)
               IN  /\ StagesOf(c) \in {<<>>, <<"validate">>, <<"search">>,
                                       <<"search", "validate">>, <<"search", "refine">>,
                                       <<"search", "refine", "validate">>}
                   /\ (es # <<>> /\ es[1].stage = "search") =>
                          /\ Cur.newsletter_source_type = "aggregate"
                          /\ NeedsEnrichment(cands[c])
                   /\ (Len(es) >= 2 /\ es[2].stage = "refine") => es[1].ret = "value"
                   /\ (c < cidx) => es # <<>>
                   /\ (c > cidx) => es = <<>>
C27_Witness ==
    /\ phase = "save"
    /\ Len(cands) = 2
    /\ StagesOf(1) = <<"search", "refine", "validate">>
    /\ EntriesOf(1)[1].called = 1
    /\ EntriesOf(1)[2].called = 1
    /\ StagesOf(2) = <<"validate">>

\* C28: every Event constructed with a recurrence rule carries a COUNT or
\* an UNTIL, and when the rule's text has neither "COUNT=" nor "UNTIL="
\* after the field validator, the model validator gives it
\* UNTIL = start_date + 1 year - 1 day.
TextUnboundedAfterFieldPass ==
    LET g == ekwargs.recurrence_rule
    IN  g # NoRule /\ g.count # 0 /\ g.count_key = "count" /\ g.until.form = "none"
YearOnLessDay(n) ==
    LET y == YearOf(n) + 1
        last == DaysInMonth(y, MonthOf(n))
    IN  MakeDate(y, MonthOf(n), IF DayOf(n) > last THEN last ELSE DayOf(n)) - 1
C28_EveryRuleBounded ==
    (eresult.kind = "event" /\ eresult.event.recurrence_rule # NoRule) =>
        LET r == eresult.event.recurrence_rule
        IN  /\ r.count # 0 \/ r.until.form # "none"
            /\ TextUnboundedAfterFieldPass =>
                   r.until = BasicUntil(strftime_Ymd(YearOnLessDay(ekwargs.start_date)), "")
C28_Witness ==
    /\ eresult.kind = "event"
    /\ TextUnboundedAfterFieldPass
    /\ ekwargs.start_date = MakeDate(2024, 2, 29)
    /\ eresult.event.recurrence_rule.until = BasicUntil(20250227, "")

\* C30: an Event built from a rule with no COUNT and no UNTIL together with
\* an end_date is accepted only when end_date is start_date + 365 days.
C30_UnboundedRuleFixesEndDate ==
    (eresult.kind = "event" /\ GivenUnbounded /\ ekwargs.end_date # 0)
        => ekwargs.end_date = ekwargs.start_date + 365
C30_Witness ==
    /\ eresult.kind = "event"
    /\ GivenUnbounded
    /\ ekwargs.start_date = MakeDate(2025, 5, 19)
    /\ ekwargs.end_date = MakeDate(2026, 5, 19)
    /\ eresult.event.end_date = MakeDate(2026, 5, 19)

\* C29: fetch_unprocessed_emails returns at most batch_size messages, and
\* over repeated runs every stored message with no ledger row is eventually
\* returned, processed and marked.  A run leaves the store as it is when
\* its fetch returns nothing, and the fetch depends on the store only, so
\* such a run is repeated unchanged by every later run: the messages still
\* unmarked then are never returned.  The claim therefore requires that a
\* fetch returns nothing only when every stored message has a ledger row.
C29_UnmarkedEventuallyFetched ==
    /\ (phase # "idle" /\ batch_size # 0) => Len(batch) <= batch_size
    /\ (phase = "done" /\ batch = <<>>) =>
           \A i \in 1..Len(emails) : HasMarker(emails_processed, emails[i].message_id)

====
